---------------------------- MODULE Spec2Model ----------------------------
(***************************************************************************)
(* State-machine model of the streaming completion handler of              *)
(* src/environment/agent/language_models/openai/gpt/streaming_utils.rs:    *)
(* StreamedCompletionHandler (receive, spawn), the background task spawn   *)
(* starts, and CompletionStreamingThread::poll_stream_for_tokens.          *)
(*                                                                         *)
(* Strings are sequences of characters, Option<T> is a record              *)
(* [some, val], a channel value Result<CompletionStreamStatus,StreamError> *)
(* is a record [kind, token].                                              *)
(***************************************************************************)
EXTENDS Naturals, Sequences, FiniteSets

(* ------------------------------ bounds --------------------------------- *)
\* longest raw chunk stream the HTTP collaborator hands over
MaxStream == 3
\* capacity of the bounded mpsc channel between the task and the handler
ChanCap == 2
\* granularity of the clock, in milliseconds
TickMs == 500
\* the clock of one receive call is not followed beyond this
MaxElapsedMs == 2000

(* ------------------------- program constants --------------------------- *)
\* Duration::from_millis(1000)
RecvTimeoutMs == 1000

(* ------------------------------ values --------------------------------- *)
\* the text deltas a chunk may carry ("" is a legal delta)
Deltas == { <<>>, <<"a">>, <<"b">> }

None == [some |-> FALSE, val |-> <<>>]
Some(s) == [some |-> TRUE, val |-> s]

\* CompletionStreamStatus and StreamError, as they travel on the channel
Working(token) == [kind |-> "Working", token |-> token]
Finished == [kind |-> "Finished", token |-> <<>>]
RetryError == [kind |-> "RetryError", token |-> <<>>]
GptErrorValue == [kind |-> "GptError", token |-> <<>>]
NoValue == [kind |-> "None", token |-> <<>>]

\* one item of CompletionStream: Result<StreamResponse, StreamBodyError>;
\* decoded = FALSE is Err(StreamBodyError), content is choices[0].delta.content,
\* error is the provider's logical error the chunk carries ("" for none)
DecodedChunk(content) == [decoded |-> TRUE, content |-> content, error |-> ""]
DecodeFailure == [decoded |-> FALSE, content |-> None, error |-> ""]
ProviderError(err) == [decoded |-> TRUE, content |-> None, error |-> err]
Chunks == { DecodedChunk(Some(d)) : d \in Deltas }
            \cup { DecodedChunk(None), DecodeFailure }
\* GptError::Recoverable and any other GptError
ErrorChunks == { ProviderError("Recoverable"), ProviderError("Other") }

SeqsUpTo(S, n) == UNION { [1..k -> S] : k \in 0..n }

Min(a, b) == IF a <= b THEN a ELSE b

VARIABLES
  chunks0,          \* the chunk stream the handler was constructed from
  chunks,           \* what is left of the chunk stream
  stream,           \* self.stream: "Some" or "None"
  sender,           \* self.sender: "Some" or "None"
  receiver,         \* the values queued in the channel self.receiver reads
  message_content,  \* self.message_content
  dropped,          \* the handler (and its receiver) has been dropped
  pcR,              \* where the current receive call is: idle, recv, notify
  elapsed,          \* milliseconds since the current receive call began
  ret,              \* what the last receive call returned
  pcT,              \* the background task: unspawned, poll, send, exit
  pending,          \* the value the task is about to send
  envLocked,        \* another party holds the EnvMessageSender mutex
  envOpen,          \* the messaging collaborator still accepts requests
  cache,            \* the PushToCache payloads the collaborator received
  spawns,           \* how many times tokio::spawn was called
  sent,             \* every value the task has put on the channel
  taken,            \* every value receive has taken from the channel
  events,           \* every Some(status) receive has returned
  timeoutAt,        \* Len(sent) + 1 at the latest timeout, 0 if none
  submitFailed      \* a PushToCache submission has failed

vars == << chunks0, chunks, stream, sender, receiver, message_content, dropped,
           pcR, elapsed, ret, pcT, pending, envLocked, envOpen, cache, spawns,
           sent, taken, events, timeoutAt, submitFailed >>

handlerVars == << stream, sender, receiver, message_content, pcR, elapsed, ret,
                  spawns, taken, events, timeoutAt >>
taskVars == << chunks, pcT, pending, sent >>
envVars == << envLocked, envOpen, cache, submitFailed >>

(* ------------------- From<(stream, sender, receiver)> ------------------ *)
\* the handler as constructed, over the chunk stream s0
Constructed(s0) ==
  /\ chunks0 = s0
  /\ chunks = chunks0
  /\ stream = "Some"
  /\ sender = "Some"
  /\ receiver = <<>>
  /\ message_content = <<>>
  /\ dropped = FALSE
  /\ pcR = "idle"
  /\ elapsed = 0
  /\ ret = NoValue
  /\ pcT = "unspawned"
  /\ pending = NoValue
  /\ envLocked = FALSE
  /\ envOpen = TRUE
  /\ cache = <<>>
  /\ spawns = 0
  /\ sent = <<>>
  /\ taken = <<>>
  /\ events = <<>>
  /\ timeoutAt = 0
  /\ submitFailed = FALSE

Init == \E s0 \in SeqsUpTo(Chunks, MaxStream) : Constructed(s0)

\* chunk streams in which the provider's logical errors arrive as well
InitErr == \E s0 \in SeqsUpTo(Chunks \cup ErrorChunks, MaxStream) : Constructed(s0)

(* ------------------------------ Poller --------------------------------- *)
\* StreamResponse::parse: the text delta of a decoded chunk, absent read as ""
parse(chunk) == IF chunk.content.some THEN Some(chunk.content.val) ELSE Some(<<>>)

\* `while let Some(Ok(r)) = stream.next().await { return Ok(r.parse()) } Ok(None)`
\* one stream.next() is taken; anything but Some(Ok(_)) leaves the loop
poll_stream_for_tokens(s) ==
  IF s = <<>>
    THEN [token_option |-> None, rest |-> <<>>]
    ELSE IF Head(s).decoded
      THEN [token_option |-> parse(Head(s)), rest |-> Tail(s)]
      ELSE [token_option |-> None, rest |-> Tail(s)]

(* -------------------------- background task ---------------------------- *)
\* Some(token) => Working(token), None => Finished
StatusOf(token_option) ==
  IF token_option.some THEN Working(token_option.val) ELSE Finished

\* GptError::Recoverable => StreamError::RetryError, _ => err.into()
ErrorOf(err) == IF err = "Recoverable" THEN RetryError ELSE GptErrorValue

BreakNever(value) == FALSE
BreakUnlessWorking(value) == value.kind # "Working"
\* after a successful send the loop is left only for Finished (break_loop);
\* the Err arm breaks only when its send fails
break_loop(value) == value.kind = "Finished"

\* the Poller hands the task an Err: the next chunk carries a provider error
PollerErrs(s) == s # <<>> /\ Head(s).error # ""

\* Ok arm of the loop, up to the send
TaskPoll ==
  /\ pcT = "poll"
  /\ ~PollerErrs(chunks)
  /\ LET r == poll_stream_for_tokens(chunks) IN
       /\ chunks' = r.rest
       /\ pending' = StatusOf(r.token_option)
  /\ pcT' = "send"
  /\ UNCHANGED << sent, chunks0, dropped >>
  /\ UNCHANGED handlerVars
  /\ UNCHANGED envVars

\* Err arm of the loop, up to the send
TaskPollErr ==
  /\ pcT = "poll"
  /\ PollerErrs(chunks)
  /\ pending' = ErrorOf(Head(chunks).error)
  /\ chunks' = Tail(chunks)
  /\ pcT' = "send"
  /\ UNCHANGED << sent, chunks0, dropped >>
  /\ UNCHANGED handlerVars
  /\ UNCHANGED envVars

TaskSendAccumulates ==
  /\ pcT = "send"
  /\ ~dropped
  /\ Len(receiver) < ChanCap
  /\ receiver' = Append(receiver, pending)
  /\ sent' = Append(sent, pending)
  /\ message_content' = message_content \o pending.token
  /\ pcT' = IF break_loop(pending) THEN "exit" ELSE "poll"
  /\ UNCHANGED << chunks, pending, chunks0, dropped >>
  /\ UNCHANGED << stream, sender, pcR, elapsed, ret, spawns,
                  taken, events, timeoutAt >>
  /\ UNCHANGED envVars

TaskSendOverwrites ==
  /\ pcT = "send"
  /\ ~dropped
  /\ receiver' = IF Len(receiver) < ChanCap
                   THEN Append(receiver, pending)
                   ELSE Append(SubSeq(receiver, 1, ChanCap - 1), pending)
  /\ sent' = Append(sent, pending)
  /\ pcT' = IF break_loop(pending) THEN "exit" ELSE "poll"
  /\ UNCHANGED << chunks, pending, chunks0, dropped >>
  /\ UNCHANGED << stream, sender, message_content, pcR, elapsed, ret, spawns,
                  taken, events, timeoutAt >>
  /\ UNCHANGED envVars

\* tx.send(..).await with room in the channel and the receiver alive
TaskSend ==
  /\ pcT = "send"
  /\ ~dropped
  /\ Len(receiver) < ChanCap
  /\ receiver' = Append(receiver, pending)
  /\ sent' = Append(sent, pending)
  /\ pcT' = IF break_loop(pending) THEN "exit" ELSE "poll"
  /\ UNCHANGED << chunks, pending, chunks0, dropped >>
  /\ UNCHANGED << stream, sender, message_content, pcR, elapsed, ret, spawns,
                  taken, events, timeoutAt >>
  /\ UNCHANGED envVars

TaskSendFailRetries ==
  /\ pcT = "send"
  /\ dropped
  /\ pcT' = "poll"
  /\ UNCHANGED << chunks, pending, sent, chunks0, dropped >>
  /\ UNCHANGED handlerVars
  /\ UNCHANGED envVars

\* tx.send(..).await after the receiver was dropped: `?` or break leaves the task
TaskSendFail ==
  /\ pcT = "send"
  /\ dropped
  /\ pcT' = "exit"
  /\ UNCHANGED << chunks, pending, sent, chunks0, dropped >>
  /\ UNCHANGED handlerVars
  /\ UNCHANGED envVars

(* ------------------------ StreamedCompletionHandler -------------------- *)
IsStatus(value) == value.kind \in {"Working", "Finished"}

\* every sender of the channel is gone: self.sender was taken, tx died with the task
SendersGone == sender = "None" /\ pcT = "exit"

spawnKeepsBoth ==
  /\ UNCHANGED << stream, sender >>
  /\ spawns' = spawns + 1
  /\ pcT' = "poll"

spawnKeepsSender ==
  /\ stream' = "None"
  /\ UNCHANGED sender
  /\ spawns' = spawns + 1
  /\ pcT' = "poll"

\* self.stream.take(), self.sender.take(), tokio::spawn(..)
spawn ==
  /\ stream' = "None"
  /\ sender' = "None"
  /\ spawns' = spawns + 1
  /\ pcT' = "poll"

\* receive is entered: spawn if both handles are there, then await the channel
ReceiveCall ==
  /\ pcR = "idle"
  /\ ~dropped
  /\ IF sender = "Some" /\ stream = "Some"
       THEN spawn
       ELSE UNCHANGED << stream, sender, spawns, pcT >>
  /\ pcR' = "recv"
  /\ elapsed' = 0
  /\ UNCHANGED << receiver, message_content, ret, taken, events, timeoutAt >>
  /\ UNCHANGED << chunks, pending, sent, chunks0, dropped >>
  /\ UNCHANGED envVars

push_str_overwrites(buffer, token) == token
\* self.message_content.push_str(&token)
push_str(buffer, token) == buffer \o token

\* recv() yields Ok(Working(token)): push_str, return Some(Working(token))
RecvWorking ==
  /\ pcR = "recv"
  /\ receiver # <<>>
  /\ Head(receiver).kind = "Working"
  /\ message_content' = push_str(message_content, Head(receiver).token)
  /\ ret' = Working(Head(receiver).token)
  /\ events' = Append(events, Working(Head(receiver).token))
  /\ taken' = Append(taken, Head(receiver))
  /\ receiver' = Tail(receiver)
  /\ pcR' = "idle"
  /\ elapsed' = 0
  /\ UNCHANGED << stream, sender, spawns, timeoutAt, chunks0, dropped >>
  /\ UNCHANGED taskVars
  /\ UNCHANGED envVars

\* recv() yields Ok(Finished): go on to the PushToCache submission
RecvFinished ==
  /\ pcR = "recv"
  /\ receiver # <<>>
  /\ Head(receiver).kind = "Finished"
  /\ taken' = Append(taken, Head(receiver))
  /\ receiver' = Tail(receiver)
  /\ pcR' = "notify"
  /\ UNCHANGED << stream, sender, message_content, elapsed, ret, spawns, events,
                  timeoutAt, chunks0, dropped >>
  /\ UNCHANGED taskVars
  /\ UNCHANGED envVars

RecvErrSurfaces ==
  /\ pcR = "recv"
  /\ receiver # <<>>
  /\ ~IsStatus(Head(receiver))
  /\ taken' = Append(taken, Head(receiver))
  /\ receiver' = Tail(receiver)
  /\ ret' = Head(receiver)
  /\ pcR' = "idle"
  /\ elapsed' = 0
  /\ UNCHANGED << stream, sender, message_content, spawns, events, timeoutAt,
                  chunks0, dropped >>
  /\ UNCHANGED taskVars
  /\ UNCHANGED envVars

\* recv() yields Err(_): result.ok()? returns None
RecvErr ==
  /\ pcR = "recv"
  /\ receiver # <<>>
  /\ ~IsStatus(Head(receiver))
  /\ taken' = Append(taken, Head(receiver))
  /\ receiver' = Tail(receiver)
  /\ ret' = NoValue
  /\ pcR' = "idle"
  /\ elapsed' = 0
  /\ UNCHANGED << stream, sender, message_content, spawns, events, timeoutAt,
                  chunks0, dropped >>
  /\ UNCHANGED taskVars
  /\ UNCHANGED envVars

\* recv() yields None (channel empty and closed): receive falls through to None
RecvClosed ==
  /\ pcR = "recv"
  /\ receiver = <<>>
  /\ SendersGone
  /\ ret' = NoValue
  /\ pcR' = "idle"
  /\ elapsed' = 0
  /\ UNCHANGED << stream, sender, receiver, message_content, spawns, taken,
                  events, timeoutAt, chunks0, dropped >>
  /\ UNCHANGED taskVars
  /\ UNCHANGED envVars

RecvTimeoutLossy ==
  /\ pcR = "recv"
  /\ elapsed >= RecvTimeoutMs
  /\ receiver' = IF receiver = <<>> THEN <<>> ELSE Tail(receiver)
  /\ timeoutAt' = Len(sent) + 1
  /\ ret' = NoValue
  /\ pcR' = "idle"
  /\ elapsed' = 0
  /\ UNCHANGED << stream, sender, message_content, spawns, taken, events,
                  chunks0, dropped >>
  /\ UNCHANGED taskVars
  /\ UNCHANGED envVars

\* the 1000 ms elapse with recv() still pending: Err(Elapsed), .ok()? returns None
RecvTimeout ==
  /\ pcR = "recv"
  /\ receiver = <<>>
  /\ ~SendersGone
  /\ elapsed >= RecvTimeoutMs
  /\ timeoutAt' = Len(sent) + 1
  /\ ret' = NoValue
  /\ pcR' = "idle"
  /\ elapsed' = 0
  /\ UNCHANGED << stream, sender, receiver, message_content, spawns, taken,
                  events, chunks0, dropped >>
  /\ UNCHANGED taskVars
  /\ UNCHANGED envVars

TimeoutArmedNever(pc) == FALSE
\* tokio::time::timeout wraps self.receiver.recv() and nothing else
TimeoutArmed(pc) == pc = "recv"

\* the receive call is suspended: on the channel, or on the collaborator's mutex
Suspended ==
  \/ pcR = "recv" /\ receiver = <<>> /\ ~SendersGone
  \/ pcR = "notify" /\ envLocked

\* time passes while the call is suspended, never beyond an armed deadline
Tick ==
  /\ Suspended
  /\ IF TimeoutArmed(pcR)
       THEN /\ elapsed < RecvTimeoutMs
            /\ elapsed' = Min(elapsed + TickMs, RecvTimeoutMs)
       ELSE /\ elapsed + TickMs <= MaxElapsedMs
            /\ elapsed' = elapsed + TickMs
  /\ UNCHANGED << stream, sender, receiver, message_content, pcR, ret, spawns,
                  taken, events, timeoutAt, chunks0, dropped >>
  /\ UNCHANGED taskVars
  /\ UNCHANGED envVars

\* sender.lock().await.send(PushToCache{..}).await succeeds: Some(Finished)
NotifyOk ==
  /\ pcR = "notify"
  /\ ~envLocked
  /\ envOpen
  /\ cache' = Append(cache, message_content)
  /\ ret' = Finished
  /\ events' = Append(events, Finished)
  /\ pcR' = "idle"
  /\ elapsed' = 0
  /\ UNCHANGED << stream, sender, receiver, message_content, spawns, taken,
                  timeoutAt, chunks0, dropped >>
  /\ UNCHANGED << envLocked, envOpen, submitFailed >>
  /\ UNCHANGED taskVars

NotifyFailReturnsFinished ==
  /\ pcR = "notify"
  /\ ~envLocked
  /\ ~envOpen
  /\ submitFailed' = TRUE
  /\ ret' = Finished
  /\ events' = Append(events, Finished)
  /\ pcR' = "idle"
  /\ elapsed' = 0
  /\ UNCHANGED << stream, sender, receiver, message_content, spawns, taken,
                  timeoutAt, chunks0, dropped >>
  /\ UNCHANGED << envLocked, envOpen, cache >>
  /\ UNCHANGED taskVars

NotifyFailRequeues ==
  /\ pcR = "notify"
  /\ ~envLocked
  /\ ~envOpen
  /\ submitFailed' = TRUE
  /\ receiver' = << Finished >> \o receiver
  /\ ret' = NoValue
  /\ pcR' = "idle"
  /\ elapsed' = 0
  /\ UNCHANGED << stream, sender, message_content, spawns, taken, events,
                  timeoutAt, chunks0, dropped >>
  /\ UNCHANGED << envLocked, envOpen, cache >>
  /\ UNCHANGED taskVars

\* the submission fails: map_err(..).ok()? returns None
NotifyFail ==
  /\ pcR = "notify"
  /\ ~envLocked
  /\ ~envOpen
  /\ submitFailed' = TRUE
  /\ ret' = NoValue
  /\ pcR' = "idle"
  /\ elapsed' = 0
  /\ UNCHANGED << stream, sender, receiver, message_content, spawns, taken,
                  events, timeoutAt, chunks0, dropped >>
  /\ UNCHANGED << envLocked, envOpen, cache >>
  /\ UNCHANGED taskVars

\* the caller gives up and drops the handler, and the receiver with it
DropHandler ==
  /\ pcR = "idle"
  /\ ~dropped
  /\ dropped' = TRUE
  /\ UNCHANGED << chunks0 >>
  /\ UNCHANGED handlerVars
  /\ UNCHANGED taskVars
  /\ UNCHANGED envVars

(* ----------------------- messaging collaborator ------------------------ *)
\* another holder of the shared EnvMessageSender takes or releases its mutex;
\* followed only while the handler is at the mutex, where it can be observed
EnvLock ==
  /\ pcR = "notify"
  /\ ~envLocked
  /\ envLocked' = TRUE
  /\ UNCHANGED << envOpen, cache, submitFailed, chunks0, dropped >>
  /\ UNCHANGED handlerVars
  /\ UNCHANGED taskVars

EnvUnlock ==
  /\ envLocked
  /\ envLocked' = FALSE
  /\ UNCHANGED << envOpen, cache, submitFailed, chunks0, dropped >>
  /\ UNCHANGED handlerVars
  /\ UNCHANGED taskVars

\* the collaborator's request queue is closed: later submissions fail;
\* followed only while the handler is about to submit, where it can be observed
EnvClose ==
  /\ pcR = "notify"
  /\ envOpen
  /\ envOpen' = FALSE
  /\ UNCHANGED << envLocked, cache, submitFailed, chunks0, dropped >>
  /\ UNCHANGED handlerVars
  /\ UNCHANGED taskVars

(* --------------------------- specifications ---------------------------- *)
\* the program: the Poller of this file returns Ok(_) only
Next ==
  \/ ReceiveCall
  \/ RecvWorking
  \/ RecvFinished
  \/ RecvClosed
  \/ RecvTimeout
  \/ Tick
  \/ NotifyOk
  \/ NotifyFail
  \/ DropHandler
  \/ TaskPoll
  \/ TaskSend
  \/ TaskSendFail
  \/ EnvLock
  \/ EnvUnlock
  \/ EnvClose

Spec == Init /\ [][Next]_vars

\* the task's loop with a Poller whose Result may be an Err
NextErr ==
  \/ Next
  \/ TaskPollErr
  \/ RecvErr

SpecErr == InitErr /\ [][NextErr]_vars

\* scheduling: the runtime runs the spawned task whenever it can step; a receive
\* call that can proceed does, and time passes while it waits; the consumer
\* keeps calling receive or drops the handler; a holder of the collaborator's
\* mutex releases it, and the mutex is fair to the waiting receive call
Fairness ==
  /\ WF_vars(TaskPoll)
  /\ WF_vars(TaskSend)
  /\ WF_vars(TaskSendFail)
  /\ WF_vars(ReceiveCall \/ DropHandler)
  /\ WF_vars(RecvWorking \/ RecvFinished \/ RecvClosed \/ RecvTimeout)
  /\ WF_vars(Tick)
  /\ WF_vars(EnvUnlock)
  /\ SF_vars(NotifyOk \/ NotifyFail)

FairSpec == Spec /\ Fairness

(* ------------------------------ claims --------------------------------- *)
RECURSIVE Concat(_)
\* the concatenation of a sequence of strings
Concat(ss) == IF ss = <<>> THEN <<>> ELSE Head(ss) \o Concat(Tail(ss))

IsPrefix(a, b) == Len(a) <= Len(b) /\ SubSeq(b, 1, Len(a)) = a

\* a chunk that decodes and carries a text delta
IsText(c) == c.decoded /\ c.error = "" /\ c.content.some
AllText(s) == \A i \in 1..Len(s) : IsText(s[i])
DeltasOf(s) == [i \in 1..Len(s) |-> s[i].content.val]
\* the tokens of the Working events among es, in order
TokensOf(es) ==
  LET W == SelectSeq(es, LAMBDA e : e.kind = "Working")
  IN [i \in 1..Len(W) |-> W[i].token]
\* N Working events, one per delta
WorkingEvents(s) == [i \in 1..Len(s) |-> Working(s[i].content.val)]
\* N Working events, one per delta, then one Finished
Expected(s) == WorkingEvents(s) \o << Finished >>

FinishedTaken == \E i \in 1..Len(taken) : taken[i].kind = "Finished"
\* the consumer has called receive until nothing is left: the task is over, the
\* channel is drained, no call is running, and the handler was not dropped
ConsumedAll ==
  /\ pcT = "exit"
  /\ receiver = <<>>
  /\ pcR = "idle"
  /\ ~dropped
\* the same, with the notification accepted by the collaborator
RanToCompletion == ConsumedAll /\ ~submitFailed

\* C1 as stated: for a stream of N text deltas followed by stream end, a
\* consumer that has called receive until nothing is left got exactly the N
\* Working events, in order, followed by exactly one Finished, and the buffer
\* is the concatenation of the N deltas.
C1_AsStated ==
  (AllText(chunks0) /\ ConsumedAll) =>
    /\ events = Expected(chunks0)
    /\ message_content = Concat(DeltasOf(chunks0))

\* C1, amended: for a stream of N text deltas followed by stream end, the
\* events receive returns are, in order, a prefix of Working(d1) .. Working(dN),
\* Finished; once Finished is taken the buffer is d1 \o .. \o dN; a consumer that
\* has called receive until nothing is left got exactly the N Working events,
\* followed by exactly one Finished if the notification was accepted and by no
\* Finished if its submission failed.
C1_DeltasThenFinished ==
  AllText(chunks0) =>
    /\ IsPrefix(events, Expected(chunks0))
    /\ message_content = Concat(TokensOf(events))
    /\ FinishedTaken => message_content = Concat(DeltasOf(chunks0))
    /\ ConsumedAll =>
         /\ events = IF submitFailed THEN WorkingEvents(chunks0)
                                     ELSE Expected(chunks0)
         /\ message_content = Concat(DeltasOf(chunks0))

C1_Witness ==
  /\ chunks0 = << DecodedChunk(Some(<<"a">>)), DecodedChunk(Some(<<"b">>)),
                  DecodedChunk(Some(<<"a">>)) >>
  /\ RanToCompletion
  /\ events = << Working(<<"a">>), Working(<<"b">>), Working(<<"a">>), Finished >>
  /\ message_content = << "a", "b", "a" >>

\* C2: the messaging collaborator receives at most one PushToCache submission;
\* there is one only once a receive call has taken Finished from the channel,
\* and its payload is the accumulation buffer, the concatenation of every
\* delta returned as Working.
C2_NotifiedAtMostOnce ==
  /\ Len(cache) <= 1
  /\ (cache # <<>> \/ submitFailed) => FinishedTaken
  /\ cache # <<>> =>
       /\ cache[1] = message_content
       /\ cache[1] = Concat(TokensOf(events))

C2_Witness ==
  /\ Len(cache) = 1
  /\ cache[1] = << "a", "b" >>
  /\ timeoutAt > 0
  /\ pcR = "idle"
  /\ ret = NoValue

\* C3: however often receive is called and whatever times out, tokio::spawn is
\* called at most once.
C3_SpawnedAtMostOnce == spawns <= 1

C3_Witness ==
  /\ spawns = 1
  /\ timeoutAt > 0
  /\ Len(taken) >= 2
  /\ pcR = "recv"

\* a receive call returns because the 1000 ms ran out: it was waiting on an
\* empty channel that still had a sender
TimedOutStep ==
  /\ pcR = "recv"
  /\ pcR' = "idle"
  /\ receiver = <<>>
  /\ ~SendersGone

\* C4: a receive call that times out returns absence and touches neither the
\* channel nor the buffer, and no value is lost or repeated whatever times out:
\* what the task has sent is always what receive has taken, in order, followed
\* by what still waits in the channel.
C4_TimeoutLosesNothing ==
  /\ [](sent = taken \o receiver)
  /\ [][TimedOutStep =>
          /\ ret' = NoValue
          /\ UNCHANGED << receiver, taken, sent, message_content, events, cache >>]_vars

\* a value sent after a timed-out call has been taken by a later call
C4_Witness ==
  /\ timeoutAt > 0
  /\ Len(taken) >= timeoutAt
  /\ taken[timeoutAt].kind = "Working"
  /\ ret = taken[timeoutAt]

IsRecoverable(c) == c.decoded /\ c.error = "Recoverable"
\* what the task sends for a stream of text deltas and recoverable errors
SentFor(s) ==
  [i \in 1..Len(s) |->
     IF IsRecoverable(s[i]) THEN RetryError ELSE Working(s[i].content.val)]
  \o << Finished >>
TextOnly(s) == SelectSeq(s, IsText)

Decodable(s) == SelectSeq(s, LAMBDA c : c.decoded)

\* C7: a chunk that fails to decode is skipped: the task sends the text of
\* every chunk that decodes, in order, as Working, and Finished only after them.
C7_DecodeFailureSkipped ==
  LET skipping == [i \in 1..Len(Decodable(chunks0)) |->
                     StatusOf(parse(Decodable(chunks0)[i]))] \o << Finished >>
  IN /\ IsPrefix(sent, skipping)
     /\ (pcT = "exit" /\ ~dropped) => sent = skipping

\* C8 as stated: no receive call is in progress for longer than the timeout.
C8_EveryCallBounded == pcR # "idle" => elapsed <= RecvTimeoutMs

\* C8, amended: the timeout bounds the wait for a channel value: a call waiting
\* on the channel has waited no longer than 1000 ms, and when the 1000 ms are
\* over it can return.
C8_ChannelWaitBounded ==
  pcR = "recv" =>
    /\ elapsed <= RecvTimeoutMs
    /\ elapsed = RecvTimeoutMs =>
         ENABLED (RecvTimeout \/ RecvClosed \/ RecvWorking \/ RecvFinished \/ RecvErr)

C8_Witness ==
  /\ pcR = "recv"
  /\ elapsed = RecvTimeoutMs
  /\ receiver = <<>>
  /\ pcT = "poll"

\* C9: Finished is the last value on the channel: once the task has sent it,
\* the task is over and has sent nothing after it.
C9_FinishedIsLast ==
  \A i \in 1..Len(sent) :
    sent[i].kind = "Finished" => i = Len(sent) /\ pcT = "exit"

C9_Witness ==
  /\ Len(sent) >= 3
  /\ sent[Len(sent)].kind = "Finished"
  /\ pcT = "exit"
  /\ receiver = <<>>
  /\ pcR = "recv"

\* C10: the stream handle and the sender handle are both present, with no task
\* spawned, or both absent, with the task spawned once; they are taken in the
\* same step and an absent handle stays absent.
C10_HandlesTogether ==
  /\ [](\/ stream = "Some" /\ sender = "Some" /\ spawns = 0 /\ pcT = "unspawned"
        \/ stream = "None" /\ sender = "None" /\ spawns = 1 /\ pcT # "unspawned")
  /\ [][/\ stream = "None" => stream' = "None"
        /\ sender = "None" => sender' = "None"
        /\ (stream' # stream) <=> (sender' # sender)]_vars

C10_Witness ==
  /\ stream = "None"
  /\ sender = "None"
  /\ spawns = 1
  /\ pcR = "idle"
  /\ Len(events) >= 2

\* the tokens of the Working values receive has taken from the channel
TakenTokens == TokensOf(taken)

\* C11: the accumulation buffer is never reset or shortened: in every step its
\* old value is a prefix of its new value, and in every state it is the
\* concatenation, in receipt order, of every delta receive has taken from the
\* channel since construction.
C11_BufferOnlyGrows ==
  /\ [](message_content = Concat(TakenTokens))
  /\ [][IsPrefix(message_content, message_content')]_vars

C11_Witness ==
  /\ message_content = << "a", "b" >>
  /\ Len(TakenTokens) = 3
  /\ timeoutAt > 0
  /\ pcR = "idle"

\* how many of the events receive has returned are Finished
FinishedReturned == Len(SelectSeq(events, LAMBDA e : e.kind = "Finished"))

\* the receive call that took Finished returns
NotifyReturns == pcR = "notify" /\ pcR' = "idle"

\* C12: receive returns Finished only when the notification was submitted:
\* the call that took Finished returns Finished in the step that hands the
\* buffer to the collaborator, and returns absence, with nothing handed over,
\* when the submission fails; so every Finished returned has its notification.
C12_FinishedOnlyIfNotified ==
  /\ [](FinishedReturned = Len(cache))
  /\ [](submitFailed => FinishedReturned = 0)
  /\ [][NotifyReturns =>
          IF envOpen
            THEN /\ ret' = Finished
                 /\ cache' = Append(cache, message_content)
                 /\ ~submitFailed'
            ELSE /\ ret' = NoValue
                 /\ events' = events
                 /\ cache' = cache
                 /\ submitFailed']_vars

\* the submission failed and that call returned absence
C12_Witness ==
  /\ submitFailed
  /\ pcR = "idle"
  /\ ret = NoValue
  /\ events = << Working(<<"a">>), Working(<<"b">>) >>
  /\ FinishedTaken

\* the receive call in progress takes an error value from the channel
TakesError ==
  /\ pcR = "recv"
  /\ receiver # <<>>
  /\ ~IsStatus(Head(receiver))
  /\ taken' = Append(taken, Head(receiver))

C14_SendFailureEndsTask ==
  [][/\ dropped => (sent' = sent /\ receiver' = receiver)
     /\ (dropped /\ pcT = "send" /\ pcT' # "send") =>
          (pcT' = "exit" /\ chunks' = chunks /\ pending' = pending)
     /\ pcT = "exit" => (pcT' = "exit" /\ chunks' = chunks /\ sent' = sent)]_vars

\* the handler was dropped with chunks still to come; the send of a Working
\* value failed and the task is over with those chunks unpolled
C14_Witness ==
  /\ dropped
  /\ pcT = "exit"
  /\ pending.kind = "Working"
  /\ chunks # <<>>
  /\ Len(sent) + Len(chunks) < Len(chunks0)

\* C15: the task sends Finished only when the chunk stream has no further
\* chunk: by then every chunk of the stream has been polled and reported as a
\* Working value, a chunk with an absent or empty delta included.
C15_FinishedOnlyAtStreamEnd ==
  \A i \in 1..Len(sent) :
    sent[i].kind = "Finished" =>
      /\ chunks = <<>>
      /\ i = Len(chunks0) + 1
      /\ \A j \in 1..Len(chunks0) : sent[j].kind = "Working"

\* C16: once the submission of the notification has failed, the notification
\* is lost: nothing was handed to the collaborator and nothing is later,
\* Finished is neither in the channel nor on its way, and no receive call has
\* returned or will return Finished.
C16_FailedNotificationLost ==
  submitFailed =>
    /\ cache = <<>>
    /\ FinishedReturned = 0
    /\ \A i \in 1..Len(receiver) : receiver[i].kind # "Finished"
    /\ pcT = "exit"
    /\ pcR # "notify"
    /\ FinishedTaken

\* after the failed submission a later receive call is under way, on a channel
\* that is empty and closed
C16_Witness ==
  /\ submitFailed
  /\ pcR = "recv"
  /\ SendersGone
  /\ receiver = <<>>
  /\ events = << Working(<<"b">>) >>
  /\ cache = <<>>

\* the task is suspended in tx.send(..).await on a full channel
SendSuspended == pcT = "send" /\ ~dropped /\ Len(receiver) = ChanCap

\* C17: the channel never holds more values than its capacity; a task whose
\* send finds it full can take no step, neither the send nor a poll, until
\* receive takes a value (or the receiver is dropped); and no value is lost or
\* overwritten: the values sent are those taken followed by those queued.
C17_Backpressure ==
  /\ Len(receiver) <= ChanCap
  /\ sent = taken \o receiver
  /\ SendSuspended =>
       ~ENABLED (TaskSend \/ TaskSendFail \/ TaskPoll \/ TaskPollErr)

\* the send was suspended on a full channel and went through once receive had
\* taken a value: more values were sent than the channel holds
C17_Witness ==
  /\ Len(sent) > ChanCap
  /\ Len(receiver) = ChanCap
  /\ Len(taken) >= 1
  /\ ~dropped

\* a step of the spawned task: the task is running and its position, its
\* pending value, the rest of the stream or what it has sent changes
TaskStep == pcT \notin {"unspawned", "exit"} /\ taskVars' # taskVars

\* C18: a step of the background task changes only the rest of the stream, the
\* task's own position and pending value, and the channel (by appending the
\* pending value): the accumulation buffer, the collaborator and every other
\* field of the handler stay as they are. The buffer changes only in a step of
\* receive that takes a Working value off the channel, by appending its token.
C18_TaskTouchesOnlyStreamAndChannel ==
  [][/\ TaskStep =>
          /\ UNCHANGED << message_content, envLocked, envOpen, cache,
                          submitFailed >>
          /\ UNCHANGED << stream, sender, pcR, elapsed, ret, spawns, taken,
                          events, timeoutAt, dropped, chunks0 >>
          /\ receiver' \in {receiver, Append(receiver, pending)}
          /\ sent' = sent \o SubSeq(receiver', Len(receiver) + 1, Len(receiver'))
     /\ message_content' # message_content =>
          /\ pcR = "recv"
          /\ receiver # <<>>
          /\ Head(receiver).kind = "Working"
          /\ taken' = Append(taken, Head(receiver))
          /\ message_content' = message_content \o Head(receiver).token
          /\ UNCHANGED taskVars]_vars

\* the task has sent a token and Finished while the buffer is still empty and
\* the collaborator untouched; nothing has been taken yet
C18_Witness ==
  /\ pcT = "exit"
  /\ sent = << Working(<<"a">>), Finished >>
  /\ receiver = sent
  /\ message_content = <<>>
  /\ cache = <<>>
  /\ ~envLocked
  /\ envOpen
\* the background task is over: it has left its loop, or it was never spawned
\* and, the handler being dropped, never will be
TaskOver == pcT = "exit" \/ (pcT = "unspawned" /\ dropped)

\* C19: under fair scheduling, with a consumer that keeps calling receive or
\* drops the handler, the background task over any finite chunk stream
\* eventually terminates and stays terminated; and unless the handler is dropped
\* or the submission fails, some receive call eventually returns Finished.
C19_TaskTerminatesFinishedDelivered ==
  /\ <>[]TaskOver
  /\ <>(dropped \/ submitFailed \/ FinishedReturned > 0)

\* over a stream of full length, with a timed-out call on the way, the task has
\* terminated and a receive call has returned Finished, the handler still alive
C19_Witness ==
  /\ Len(chunks0) = MaxStream
  /\ Len(sent) = MaxStream + 1
  /\ pcT = "exit"
  /\ ~dropped
  /\ timeoutAt > 0
  /\ FinishedReturned = 1
  /\ pcR = "idle"
\* a receive call made after Finished was taken: the call that took Finished
\* went on to the notification in the same step, so a call found idle or at the
\* channel with Finished taken is a later one
LaterCall == FinishedTaken /\ pcR \in {"idle", "recv"}

\* C20: once Finished was taken the channel is empty and closed for good, and
\* every step of a later receive call spawns nothing, takes nothing, leaves the
\* accumulation buffer and the collaborator's cache unchanged, never reaches the
\* notification, and the call returns absence.
C20_AfterFinishedNothing ==
  /\ [](FinishedTaken => receiver = <<>> /\ SendersGone /\ stream = "None")
  /\ [][LaterCall =>
          /\ UNCHANGED << spawns, pcT, taken, message_content, cache, events,
                          submitFailed >>
          /\ pcR' \in {"idle", "recv"}
          /\ (pcR = "recv" /\ pcR' = "idle") => ret' = NoValue]_vars

\* Finished was returned and the notification submitted; a later call has since
\* returned absence
C20_Witness ==
  /\ FinishedTaken
  /\ FinishedReturned = 1
  /\ cache = << <<"a">> >>
  /\ pcR = "idle"
  /\ ret = NoValue
  /\ spawns = 1
  /\ ~dropped
=============================================================================
